---------------------------- MODULE Spec2Model ----------------------------
(***************************************************************************)
(* A model of cash-tx-builder: the VarInt codec, the script codec, the raw *)
(* transaction format and the TxBuilder with its BIP143-style digest.      *)
(*                                                                         *)
(* Representation.  TLC's integers are 32 bits wide, so a Rust u8 is a     *)
(* number 0..255 and every wider unsigned integer (u16, u32, u64, usize)   *)
(* is the sequence of its base-256 digits, most significant digit first,   *)
(* exactly as the hexadecimal literal is written: 0x0100 as u16 is         *)
(* <<1, 0>>.  A byte buffer (Vec<u8>, &[u8], [u8; N]) is a sequence of     *)
(* numbers 0..255.  A Result is a record with field ok.                    *)
(***************************************************************************)
EXTENDS Integers, Sequences, FiniteSets, TLC

VARIABLES
    tx,            \* TxBuilder.tx: version, inputs, outputs, lock_time
    prev_outputs,  \* TxBuilder.prev_outputs: input index -> Output
    fork_id,       \* TxBuilder.fork_id
    op,            \* the operation performed last
    args,          \* its arguments
    ret            \* what it returned

vars == <<tx, prev_outputs, fork_id, op, args, ret>>

builder == <<tx, prev_outputs, fork_id>>

-----------------------------------------------------------------------------
(* Sequences and fixed-width unsigned integers *)

Zeros(n) == [i \in 1..n |-> 0]

Reverse(s) == [i \in 1..Len(s) |-> s[Len(s) + 1 - i]]

Take(s, n) == SubSeq(s, 1, n)

Drop(s, n) == SubSeq(s, n + 1, Len(s))

\* the w-digit unsigned integer holding the small number n (n < 2^31)
RECURSIVE Word(_, _)
Word(n, w) == IF w = 0 THEN <<>> ELSE Append(Word(n \div 256, w - 1), n % 256)

\* `x as uN` to a narrower type keeps the low digits; to a wider one pads
Cast(x, w) ==
    IF Len(x) >= w THEN SubSeq(x, Len(x) - w + 1, Len(x))
    ELSE Zeros(w - Len(x)) \o x

\* x <= y for two unsigned integers (compared at their common width)
RECURSIVE DigitsLeq(_, _)
DigitsLeq(x, y) ==
    IF x = <<>> THEN TRUE
    ELSE IF Head(x) # Head(y) THEN Head(x) < Head(y)
    ELSE DigitsLeq(Tail(x), Tail(y))

WordLeq(x, y) ==
    LET w == IF Len(x) > Len(y) THEN Len(x) ELSE Len(y)
    IN  DigitsLeq(Cast(x, w), Cast(y, w))

WordLt(x, y) == WordLeq(x, y) /\ Cast(x, 8) # Cast(y, 8)

InRange(x, lo, hi) == WordLeq(lo, x) /\ WordLeq(x, hi)

\* uN::to_le_bytes and uN::from_le_bytes
to_le_bytes(x) == Reverse(x)

\* a decoder that reads the bytes most significant first
from_be_bytes(b) == b

from_le_bytes(b) == Reverse(b)

\* a usize that fits the model's integers, as a number (lengths of buffers)
RECURSIVE DigitsNat(_, _)
DigitsNat(x, acc) ==
    IF x = <<>> THEN acc ELSE DigitsNat(Tail(x), acc * 256 + Head(x))

\* buffers of the model are far shorter than 2^24 bytes
FitsNat(x) == \A i \in 1..Len(x) : i <= Len(x) - 3 => x[i] = 0

AsNat(x) == DigitsNat(x, 0)

\* `buf.len() < n as usize`
LenLt(buf, n) == ~FitsNat(n) \/ Len(buf) < AsNat(n)

Ok(v) == [ok |-> TRUE, val |-> v]

-----------------------------------------------------------------------------
(* types/var_int.rs *)

X00 == <<0>>
XFC == <<252>>
XFD == <<253>>
XFFFF == <<255, 255>>
X10000 == <<1, 0, 0>>
XFFFFFFFF == <<255, 255, 255, 255>>

\* From<u64> for VarInt: VarInt(num)
VarInt(num) == Cast(num, 8)

\* an encoding that writes 0xfd as one byte
VarInt_to_vec_fd(v) ==
    IF InRange(v, X00, XFD) THEN <<Cast(v, 1)[1]>>
    ELSE IF InRange(v, XFD, XFFFF) THEN <<253>> \o to_le_bytes(Cast(v, 2))
    ELSE IF InRange(v, X10000, XFFFFFFFF) THEN <<254>> \o to_le_bytes(Cast(v, 4))
    ELSE <<255>> \o to_le_bytes(Cast(v, 8))

\* From<VarInt> for Vec<u8>
VarInt_to_vec(v) ==
    IF InRange(v, X00, XFC) THEN <<Cast(v, 1)[1]>>
    ELSE IF InRange(v, XFD, XFFFF) THEN <<253>> \o to_le_bytes(Cast(v, 2))
    ELSE IF InRange(v, X10000, XFFFFFFFF) THEN <<254>> \o to_le_bytes(Cast(v, 4))
    ELSE <<255>> \o to_le_bytes(Cast(v, 8))

TryFromVarIntError == [ok |-> FALSE, err |-> "TryFromVarIntError"]

\* a decoding that takes a missing last byte for zero
VarInt_try_from_lenient(v) ==
    IF v = <<>> THEN TryFromVarIntError
    ELSE IF v[1] <= 252 THEN Ok(VarInt(<<v[1]>>))
    ELSE IF v[1] = 253 /\ Len(v) >= 2
    THEN Ok(VarInt(from_le_bytes(SubSeq(v \o <<0>>, 2, 3))))
    ELSE IF v[1] = 254 /\ Len(v) >= 4
    THEN Ok(VarInt(from_le_bytes(SubSeq(v \o <<0>>, 2, 5))))
    ELSE IF v[1] = 255 /\ Len(v) >= 8
    THEN Ok(VarInt(from_le_bytes(SubSeq(v \o <<0>>, 2, 9))))
    ELSE TryFromVarIntError

\* TryFrom<&[u8]> for VarInt
VarInt_try_from(v) ==
    IF v = <<>> THEN TryFromVarIntError
    ELSE IF v[1] <= 252 THEN Ok(VarInt(<<v[1]>>))
    ELSE IF v[1] = 253 /\ Len(v) >= 3 THEN Ok(VarInt(from_le_bytes(SubSeq(v, 2, 3))))
    ELSE IF v[1] = 254 /\ Len(v) >= 5 THEN Ok(VarInt(from_le_bytes(SubSeq(v, 2, 5))))
    ELSE IF v[1] = 255 /\ Len(v) >= 9 THEN Ok(VarInt(from_le_bytes(SubSeq(v, 2, 9))))
    ELSE TryFromVarIntError

\* a len that knows no 5-byte form
VarInt_len_short(v) ==
    IF InRange(v, X00, XFC) THEN 1
    ELSE IF InRange(v, XFD, XFFFFFFFF) THEN 3
    ELSE 9

\* VarInt::len: the serialized length, computed from the value
VarInt_len(v) ==
    IF InRange(v, X00, XFC) THEN 1
    ELSE IF InRange(v, XFD, XFFFF) THEN 3
    ELSE IF InRange(v, X10000, XFFFFFFFF) THEN 5
    ELSE 9

None == [some |-> FALSE]

Some(v) == [some |-> TRUE, val |-> v]

-----------------------------------------------------------------------------
(* types/transaction.rs and types/transaction/{outpoint,input,output}.rs *)

\* From<&OutPoint> for Vec<u8>
OutPoint_to_vec(o) == o.txid \o to_le_bytes(o.n)

\* an Input on the wire with its sequence before its script
Input_to_vec_sequence_first(i) ==
    OutPoint_to_vec(i.outpoint)
        \o to_le_bytes(i.sequence_no)
        \o VarInt_to_vec(VarInt(Word(Len(i.script), 8)))
        \o i.script

\* From<&Input> for Vec<u8>
Input_to_vec(i) ==
    OutPoint_to_vec(i.outpoint)
        \o VarInt_to_vec(VarInt(Word(Len(i.script), 8)))
        \o i.script
        \o to_le_bytes(i.sequence_no)

\* From<&Output> for Vec<u8>
Output_to_vec(o) ==
    to_le_bytes(o.value)
        \o VarInt_to_vec(VarInt(Word(Len(o.script), 8)))
        \o o.script

\* Input::new
Input_new(txid, index, sequence_no) ==
    [outpoint |-> [txid |-> txid, n |-> index],
     script |-> <<>>,
     sequence_no |-> IF sequence_no.some THEN sequence_no.val ELSE XFFFFFFFF]

\* Output::new
Output_new(value, script) == [value |-> value, script |-> script]

\* Transaction::new
Transaction_new ==
    [version |-> Word(2, 4), inputs |-> <<>>, outputs |-> <<>>, lock_time |-> Word(0, 4)]

\* iter().flat_map(to_vec).collect()
RECURSIVE FlatMapInputs(_)
FlatMapInputs(s) ==
    IF s = <<>> THEN <<>> ELSE Input_to_vec(Head(s)) \o FlatMapInputs(Tail(s))

RECURSIVE FlatMapOutputs(_)
FlatMapOutputs(s) ==
    IF s = <<>> THEN <<>> ELSE Output_to_vec(Head(s)) \o FlatMapOutputs(Tail(s))

\* From<&Transaction> for Vec<u8>
Transaction_to_vec(t) ==
    to_le_bytes(t.version)
        \o VarInt_to_vec(VarInt(Word(Len(t.inputs), 8)))
        \o FlatMapInputs(t.inputs)
        \o VarInt_to_vec(VarInt(Word(Len(t.outputs), 8)))
        \o FlatMapOutputs(t.outputs)
        \o to_le_bytes(t.lock_time)

\* a reader that refuses a field that ends where the buffer ends
read_bytes_strict(size, v) ==
    IF size >= Len(v) THEN [some |-> FALSE]
    ELSE [some |-> TRUE, val |-> Take(v, size), rest |-> Drop(v, size)]

\* read_bytes::<[u8; size]>: an Option of (array, rest)
read_bytes(size, v) ==
    IF size > Len(v) THEN [some |-> FALSE]
    ELSE [some |-> TRUE, val |-> Take(v, size), rest |-> Drop(v, size)]

\* read_var_int: an Option of (u64, rest)
read_var_int(v) ==
    LET vi == VarInt_try_from(v)
    IN  IF ~vi.ok THEN [some |-> FALSE]
        ELSE [some |-> TRUE, val |-> vi.val, rest |-> Drop(v, VarInt_len(vi.val))]

\* Error::TxParseError(offset, remaining bytes)
TxParseError(offset, bytes) ==
    [ok |-> FALSE, err |-> "TxParseError", offset |-> offset, bytes |-> bytes]

\* the body of `for _ in 0..in_counter`, from its i-th round on
RECURSIVE parse_inputs(_, _, _, _, _)
parse_inputs(len, in_counter, i, read_pointer, inputs) ==
    IF ~WordLt(Word(i, 8), in_counter)
    THEN [ok |-> TRUE, inputs |-> inputs, read_pointer |-> read_pointer]
    ELSE
    LET txid == read_bytes(32, read_pointer) IN
    IF ~txid.some THEN TxParseError(len - Len(read_pointer), read_pointer) ELSE
    LET index == read_bytes(4, txid.rest) IN
    IF ~index.some THEN TxParseError(len - Len(txid.rest), txid.rest) ELSE
    LET script_len == read_var_int(index.rest) IN
    IF ~script_len.some THEN TxParseError(len - Len(index.rest), index.rest) ELSE
    LET p == script_len.rest IN
    IF LenLt(p, script_len.val) THEN TxParseError(len - Len(p), p) ELSE
    LET script == Take(p, AsNat(script_len.val))
        q == Drop(p, AsNat(script_len.val))
        sequence_no == read_bytes(4, q)
    IN
    IF ~sequence_no.some THEN TxParseError(len - Len(q), q) ELSE
    LET input == [Input_new(txid.val, from_le_bytes(index.val),
                            Some(from_le_bytes(sequence_no.val)))
                    EXCEPT !.script = script]
    IN  parse_inputs(len, in_counter, i + 1, sequence_no.rest, Append(inputs, input))

\* the body of `for _ in 0..out_counter`, from its i-th round on
RECURSIVE parse_outputs(_, _, _, _, _)
parse_outputs(len, out_counter, i, read_pointer, outputs) ==
    IF ~WordLt(Word(i, 8), out_counter)
    THEN [ok |-> TRUE, outputs |-> outputs, read_pointer |-> read_pointer]
    ELSE
    LET value == read_bytes(8, read_pointer) IN
    IF ~value.some THEN TxParseError(len - Len(read_pointer), read_pointer) ELSE
    LET script_len == read_var_int(value.rest) IN
    IF ~script_len.some THEN TxParseError(len - Len(value.rest), value.rest) ELSE
    LET p == script_len.rest IN
    IF LenLt(p, script_len.val) THEN TxParseError(len - Len(p), p) ELSE
    LET script == Take(p, AsNat(script_len.val))
        q == Drop(p, AsNat(script_len.val))
        output == Output_new(from_le_bytes(value.val), script)
    IN  parse_outputs(len, out_counter, i + 1, q, Append(outputs, output))

\* TryFrom<&[u8]> for Transaction
Transaction_try_from(bytes) ==
    LET len == Len(bytes)
        version == read_bytes(4, bytes)
    IN
    IF ~version.some THEN TxParseError(0, bytes) ELSE
    LET in_counter == read_var_int(version.rest) IN
    IF ~in_counter.some
    THEN TxParseError(len - Len(version.rest), version.rest) ELSE
    LET ins == parse_inputs(len, in_counter.val, 0, in_counter.rest, <<>>) IN
    IF ~ins.ok THEN ins ELSE
    LET out_counter == read_var_int(ins.read_pointer) IN
    IF ~out_counter.some
    THEN TxParseError(len - Len(ins.read_pointer), ins.read_pointer) ELSE
    LET outs == parse_outputs(len, out_counter.val, 0, out_counter.rest, <<>>) IN
    IF ~outs.ok THEN outs ELSE
    LET lock_time == read_bytes(4, outs.read_pointer) IN
    IF ~lock_time.some
    THEN TxParseError(len - Len(outs.read_pointer), outs.read_pointer) ELSE
    Ok([version |-> from_le_bytes(version.val),
        inputs |-> ins.inputs,
        outputs |-> outs.outputs,
        lock_time |-> from_le_bytes(lock_time.val)])

-----------------------------------------------------------------------------
(* opcode.rs is not among the sources: an OpCode is modelled as its byte   *)
(* (`op as u8`), with the values of the standard table for the opcodes the *)
(* sources name; OpCode::from_u8 recognizes exactly those.                 *)

OP_0 == 0
OP_PUSHDATA1 == 76
OP_PUSHDATA2 == 77
OP_PUSHDATA4 == 78
OP_1NEGATE == 79
OP_1 == 81
OP_RETURN == 106
OP_DUP == 118
OP_EQUAL == 135
OP_EQUALVERIFY == 136
OP_HASH160 == 169
OP_CHECKSIG == 172

\* OP_1 .. OP_16
SmallIntOpCodes == {OP_1 + k : k \in 0..15}

OpCodes ==
    {OP_0, OP_PUSHDATA1, OP_PUSHDATA2, OP_PUSHDATA4, OP_1NEGATE, OP_RETURN, OP_DUP,
     OP_EQUAL, OP_EQUALVERIFY, OP_HASH160, OP_CHECKSIG} \cup SmallIntOpCodes

\* OpCode::from_u8 (derived FromPrimitive)
OpCode_from_u8(b) == IF b \in OpCodes THEN Some(b) ELSE None

-----------------------------------------------------------------------------
(* script.rs *)

\* enum Script: OpCode(OpCode) | Data(&[u8])
Script_OpCode(o) == [tag |-> "OpCode", op |-> o, data |-> <<>>]

Script_Data(d) == [tag |-> "Data", op |-> 0, data |-> d]

DATA_OPCODE == <<OP_0>> \o [k \in 1..16 |-> OP_1 + k - 1]

InvalidLengthData(l) == [ok |-> FALSE, err |-> "InvalidLengthData", len |-> l]

\* push_data, the arms that match on the length l = data.len() alone
\* (0x00..=0x4b, 0x4c..=0xff, 0x100..=0xffff, 0x10000..=0xffff_ffff): what
\* is pushed before the data
push_len_prefix(l) ==
    IF InRange(l, X00, <<75>>) THEN Ok(<<Cast(l, 1)[1]>>)
    ELSE IF InRange(l, <<76>>, <<255>>) THEN Ok(<<OP_PUSHDATA1>> \o to_le_bytes(Cast(l, 1)))
    ELSE IF InRange(l, <<1, 0>>, XFFFF) THEN Ok(<<OP_PUSHDATA2>> \o to_le_bytes(Cast(l, 2)))
    ELSE IF InRange(l, X10000, XFFFFFFFF)
    THEN Ok(<<OP_PUSHDATA4>> \o to_le_bytes(Cast(l, 4)))
    ELSE InvalidLengthData(l)

\* push_data(data, v): what is appended to v, or the error
push_data(data) ==
    IF Len(data) = 0 THEN Ok(<<OP_0>>)
    ELSE IF Len(data) = 1 /\ data[1] <= 16 THEN Ok(<<DATA_OPCODE[data[1] + 1]>>)
    ELSE IF Len(data) = 1 /\ data[1] = 129 THEN Ok(<<OP_1NEGATE>>)
    ELSE LET prefix == push_len_prefix(Word(Len(data), 8))
         IN  IF prefix.ok THEN Ok(prefix.val \o data) ELSE prefix

\* encode: try_fold over the elements
RECURSIVE encode_fold(_, _)
encode_fold(v, scripts) ==
    IF scripts = <<>> THEN Ok(v)
    ELSE LET script == Head(scripts) IN
         IF script.tag = "OpCode"
         THEN encode_fold(Append(v, script.op), Tail(scripts))
         ELSE LET pushed == push_data(script.data)
              IN  IF pushed.ok THEN encode_fold(v \o pushed.val, Tail(scripts))
                  ELSE pushed

encode(scripts) == encode_fold(<<>>, scripts)

\* v.get(..len) and v.get(len..) for a length given as an unsigned integer
GetSplit(v, len) ==
    IF LenLt(v, len) THEN [some |-> FALSE]
    ELSE [some |-> TRUE, val |-> Script_Data(Take(v, AsNat(len))), rest |-> Drop(v, AsNat(len))]

\* a decoder that takes one data byte too few after OP_PUSHDATA1
get_opcode_short(v0) ==
    IF v0 = <<>> THEN [some |-> FALSE] ELSE
    LET o == v0[1]
        v == Tail(v0)
    IN
    IF o <= 75 THEN GetSplit(v, <<o>>) ELSE
    LET known == OpCode_from_u8(o) IN
    IF ~known.some THEN [some |-> FALSE]
    ELSE IF known.val = OP_PUSHDATA1
    THEN IF Len(v) < 1 THEN [some |-> FALSE]
         ELSE IF v[1] = 0 THEN GetSplit(Tail(v), <<0>>) ELSE GetSplit(Tail(v), <<v[1] - 1>>)
    ELSE IF known.val = OP_PUSHDATA2
    THEN IF Len(v) < 2 THEN [some |-> FALSE]
         ELSE GetSplit(Drop(v, 2), from_le_bytes(Take(v, 2)))
    ELSE IF known.val = OP_PUSHDATA4
    THEN IF Len(v) < 4 THEN [some |-> FALSE]
         ELSE GetSplit(Drop(v, 4), from_le_bytes(Take(v, 4)))
    ELSE [some |-> TRUE, val |-> Script_OpCode(known.val), rest |-> v]

\* get_opcode: an Option of (element, rest)
get_opcode(v0) ==
    IF v0 = <<>> THEN [some |-> FALSE] ELSE
    LET o == v0[1]
        v == Tail(v0)
    IN
    IF o <= 75 THEN GetSplit(v, <<o>>) ELSE
    LET known == OpCode_from_u8(o) IN
    IF ~known.some THEN [some |-> FALSE]
    ELSE IF known.val = OP_PUSHDATA1
    THEN IF Len(v) < 1 THEN [some |-> FALSE]
         ELSE GetSplit(Tail(v), <<v[1]>>)
    ELSE IF known.val = OP_PUSHDATA2
    THEN IF Len(v) < 2 THEN [some |-> FALSE]
         ELSE GetSplit(Drop(v, 2), from_le_bytes(Take(v, 2)))
    ELSE IF known.val = OP_PUSHDATA4
    THEN IF Len(v) < 4 THEN [some |-> FALSE]
         ELSE GetSplit(Drop(v, 4), from_le_bytes(Take(v, 4)))
    ELSE [some |-> TRUE, val |-> Script_OpCode(known.val), rest |-> v]

InvalidOpCode(b) == [ok |-> FALSE, err |-> "InvalidOpCode", byte |-> b]

\* decode: the while loop
RECURSIVE decode_loop(_, _)
decode_loop(scripts, cur) ==
    IF cur = <<>> THEN Ok(scripts)
    ELSE LET got == get_opcode(cur)
         IN  IF got.some THEN decode_loop(Append(scripts, got.val), got.rest)
             ELSE InvalidOpCode(cur[1])

decode(v) == decode_loop(<<>>, v)

-----------------------------------------------------------------------------
(* script/p2pkh.rs, script/p2sh.rs and the rest of script.rs *)

p2pkh_script_pub_key(hash) ==
    encode(<<Script_OpCode(OP_DUP), Script_OpCode(OP_HASH160), Script_Data(hash),
             Script_OpCode(OP_EQUALVERIFY), Script_OpCode(OP_CHECKSIG)>>)

p2sh_script_pub_key(hash) ==
    encode(<<Script_OpCode(OP_HASH160), Script_Data(hash), Script_OpCode(OP_EQUAL)>>)

InvalidAddress(address) == [ok |-> FALSE, err |-> "InvalidAddress", address |-> address]

\* an address_to_script that takes is_pkh the wrong way round
address_to_script_swapped(address, parser) ==
    IF ~parser[address].some THEN InvalidAddress(address)
    ELSE IF parser[address].val.is_pkh THEN p2sh_script_pub_key(parser[address].val.hash)
    ELSE p2pkh_script_pub_key(parser[address].val.hash)

\* address_to_script, for a parser given as the function it computes
address_to_script(address, parser) ==
    IF ~parser[address].some THEN InvalidAddress(address)
    ELSE IF parser[address].val.is_pkh THEN p2pkh_script_pub_key(parser[address].val.hash)
    ELSE p2sh_script_pub_key(parser[address].val.hash)

null_data_script(data) == encode(<<Script_OpCode(OP_RETURN), Script_Data(data)>>)

-----------------------------------------------------------------------------
(* types/uint256.rs; a str is the sequence of its characters *)

\* the characters hex::decode accepts: the value of the k-th is k - 1 up to
\* "f" and k - 7 from "A" on
HexDigits ==
    <<"0", "1", "2", "3", "4", "5", "6", "7", "8", "9", "a", "b", "c", "d", "e", "f",
      "A", "B", "C", "D", "E", "F">>

HexVal ==
    [c \in {HexDigits[k] : k \in 1..Len(HexDigits)} |->
        LET k == CHOOSE k \in 1..Len(HexDigits) : HexDigits[k] = c
        IN  IF k <= 16 THEN k - 1 ELSE k - 7]

HexError(kind) == [ok |-> FALSE, err |-> "HexError", kind |-> kind]

\* hex::decode
hex_decode(s) ==
    IF Len(s) % 2 # 0 THEN HexError("OddLength")
    ELSE IF \E k \in 1..Len(s) : s[k] \notin DOMAIN HexVal
    THEN HexError("InvalidHexCharacter")
    ELSE Ok([k \in 1..(Len(s) \div 2) |-> 16 * HexVal[s[2 * k - 1]] + HexVal[s[2 * k]]])

\* format!("{:02x}", v) of every byte, collected
hex_encode(v) ==
    [k \in 1..(2 * Len(v)) |->
        IF k % 2 = 1 THEN HexDigits[(v[(k + 1) \div 2] \div 16) + 1]
        ELSE HexDigits[(v[k \div 2] % 16) + 1]]

\* a call that did not return
Panic == [ok |-> FALSE, err |-> "panic"]

\* From<&[u8]> for uint256: copy_from_slice panics when the lengths differ,
\* which they do (31 against 32) for every v longer than 32 bytes
uint256_from(v) ==
    IF Len(v) > 32 THEN Panic
    ELSE Ok(v \o Zeros(32 - Len(v)))

\* a rendering in stored order
uint256_to_string_forward(v) == hex_encode(v)

\* From<uint256> for String
uint256_to_string(v) == hex_encode(Reverse(v))

\* FromStr for uint256
uint256_from_str(s) ==
    IF hex_decode(s).ok THEN uint256_from(Reverse(hex_decode(s).val)) ELSE hex_decode(s)

-----------------------------------------------------------------------------
(* hash.rs and bit_util.rs *)

\* SHA-256 is not modelled: in its place a 32-byte checksum that depends on
\* the length, the value and the position of every byte of its input (inputs
\* are shorter than 2^15 bytes)
RECURSIVE Absorb(_, _, _)
Absorb(x, lo, hi) ==
    IF hi - lo >= 32
    THEN Absorb(x, lo, (lo + hi) \div 2) + Absorb(x, ((lo + hi) \div 2) + 1, hi)
    ELSE IF hi - lo >= 3
    THEN lo * (x[lo] + 1) + (lo + 1) * (x[lo + 1] + 1) + (lo + 2) * (x[lo + 2] + 1)
            + (lo + 3) * (x[lo + 3] + 1) + Absorb(x, lo + 4, hi)
    ELSE IF lo > hi THEN 0
    ELSE lo * (x[lo] + 1) + Absorb(x, lo + 1, hi)

Sha256(x) ==
    LET a == (Absorb(x, 1, Len(x)) + Len(x) + 7) % 65521
    IN  [k \in 1..32 |-> (a * k + (a \div 256) + k) % 256]

\* hash256 of a hasher, the hasher being the bytes chained into it
hash256(hasher) == Sha256(Sha256(hasher))

\* a & b and a | b on two bytes, bit by bit
BitsAnd(a, b) ==
    IF a = 0 \/ b = 0 THEN 0
    ELSE (a % 2) * (b % 2)
            + 2 * (((a \div 2) % 2) * ((b \div 2) % 2))
            + 4 * (((a \div 4) % 2) * ((b \div 4) % 2))
            + 8 * (((a \div 8) % 2) * ((b \div 8) % 2))
            + 16 * (((a \div 16) % 2) * ((b \div 16) % 2))
            + 32 * (((a \div 32) % 2) * ((b \div 32) % 2))
            + 64 * (((a \div 64) % 2) * ((b \div 64) % 2))
            + 128 * (((a \div 128) % 2) * ((b \div 128) % 2))

BitsOr(a, b) == a + b - BitsAnd(a, b)

\* x & y, x | y and x << 8 on unsigned integers of one width
BitAnd(x, y) == [k \in 1..Len(x) |-> BitsAnd(x[k], y[k])]

BitOr(x, y) == [k \in 1..Len(x) |-> BitsOr(x[k], y[k])]

\* a shift that brings the top byte back at the bottom
Rotl8(x) == Tail(x) \o <<x[1]>>

Shl8(x) == Tail(x) \o <<0>>

\* BitUtil::is_set
is_set(x, target) == BitAnd(x, target) # Zeros(Len(x))

-----------------------------------------------------------------------------
(* tx_builder.rs *)

sig_hash_NONE == <<0, 0, 0, 2>>
sig_hash_SINGLE == <<0, 0, 0, 3>>
sig_hash_FORKID == <<0, 0, 0, 64>>
sig_hash_ANYONECANPAY == <<0, 0, 0, 128>>

InvalidIndex(index) == [ok |-> FALSE, err |-> "InvalidIndex", index |-> index]

\* an insert under the key after the one asked for
InsertAfter(map, key, output) ==
    [k \in DOMAIN map \cup {key + 1} |-> IF k = key + 1 THEN output ELSE map[k]]

\* self.prev_outputs.insert(key, output)
Insert(map, key, output) ==
    [k \in DOMAIN map \cup {key} |-> IF k = key THEN output ELSE map[k]]

\* fold(Sha256::new(), |hasher, i| hasher.chain(txid).chain(n.to_le_bytes()))
RECURSIVE ChainOutPoints(_)
ChainOutPoints(inputs) ==
    IF inputs = <<>> THEN <<>>
    ELSE Head(inputs).outpoint.txid \o to_le_bytes(Head(inputs).outpoint.n)
            \o ChainOutPoints(Tail(inputs))

\* fold(Sha256::new(), |hasher, i| hasher.chain(sequence_no.to_le_bytes()))
RECURSIVE ChainSequences(_)
ChainSequences(inputs) ==
    IF inputs = <<>> THEN <<>>
    ELSE to_le_bytes(Head(inputs).sequence_no) \o ChainSequences(Tail(inputs))

\* hash_type & 0x1f
Base(hash_type) == BitAnd(hash_type, <<0, 0, 0, 31>>)

\* a hash_prev_outs that looks at the wrong bit of hash_type
hash_prev_outs_forkid(hash_type) ==
    IF ~is_set(hash_type, sig_hash_FORKID) THEN hash256(ChainOutPoints(tx.inputs))
    ELSE Zeros(32)

hash_prev_outs(hash_type) ==
    IF ~is_set(hash_type, sig_hash_ANYONECANPAY) THEN hash256(ChainOutPoints(tx.inputs))
    ELSE Zeros(32)

hash_sequence(hash_type) ==
    IF /\ ~is_set(hash_type, sig_hash_ANYONECANPAY)
       /\ Base(hash_type) # sig_hash_SINGLE
       /\ Base(hash_type) # sig_hash_NONE
    THEN hash256(ChainSequences(tx.inputs))
    ELSE Zeros(32)

\* a hash_outputs that takes the first output whatever the index
hash_outputs_head(hash_type, index) ==
    IF Base(hash_type) # sig_hash_SINGLE /\ Base(hash_type) # sig_hash_NONE
    THEN hash256(FlatMapOutputs(tx.outputs))
    ELSE IF /\ Base(hash_type) = sig_hash_SINGLE
            /\ WordLt(index, Cast(Word(Len(tx.outputs), 8), 4))
    THEN hash256(Output_to_vec(tx.outputs[1]))
    ELSE Zeros(32)

hash_outputs(hash_type, index) ==
    IF Base(hash_type) # sig_hash_SINGLE /\ Base(hash_type) # sig_hash_NONE
    THEN hash256(FlatMapOutputs(tx.outputs))
    ELSE IF /\ Base(hash_type) = sig_hash_SINGLE
            /\ WordLt(index, Cast(Word(Len(tx.outputs), 8), 4))
    THEN hash256(Output_to_vec(tx.outputs[AsNat(index) + 1]))
    ELSE Zeros(32)

\* a prev_output that looks into prev_outputs first
prev_output_table_first(index, prev_value, prev_script) ==
    IF FitsNat(index) /\ AsNat(index) \in DOMAIN prev_outputs
    THEN Some(prev_outputs[AsNat(index)])
    ELSE IF prev_value.some /\ prev_script.some
    THEN Some([value |-> prev_value.val, script |-> prev_script.val])
    ELSE None

\* a prev_output that takes whichever argument is given
prev_output_either(index, prev_value, prev_script) ==
    IF prev_value.some /\ prev_script.some
    THEN Some([value |-> prev_value.val, script |-> prev_script.val])
    ELSE IF FitsNat(index) /\ AsNat(index) \in DOMAIN prev_outputs
    THEN Some([value |-> IF prev_value.some THEN prev_value.val
                         ELSE prev_outputs[AsNat(index)].value,
               script |-> IF prev_script.some THEN prev_script.val
                          ELSE prev_outputs[AsNat(index)].script])
    ELSE None

\* (prev_value, prev_script): the arguments, or the entry of prev_outputs
prev_output(index, prev_value, prev_script) ==
    IF prev_value.some /\ prev_script.some
    THEN Some([value |-> prev_value.val, script |-> prev_script.val])
    ELSE IF FitsNat(index) /\ AsNat(index) \in DOMAIN prev_outputs
    THEN Some(prev_outputs[AsNat(index)])
    ELSE None

\* a get that falls back to the last input
get_input_clamped(index) ==
    IF FitsNat(index) /\ AsNat(index) < Len(tx.inputs) THEN Some(tx.inputs[AsNat(index) + 1])
    ELSE IF tx.inputs # <<>> THEN Some(tx.inputs[Len(tx.inputs)])
    ELSE None

\* self.tx.inputs.get(index as usize)
get_input(index) ==
    IF FitsNat(index) /\ AsNat(index) < Len(tx.inputs) THEN Some(tx.inputs[AsNat(index) + 1])
    ELSE None

\* a hasher that takes the script of the input for script code once it is set
witness_v0_hasher_script_sig(hash_type, index, prev_value, prev_script) ==
    LET prev == prev_output(index, prev_value, prev_script)
        input == get_input(index)
        script_code == encode(<<Script_Data(IF input.val.script # <<>>
                                            THEN input.val.script
                                            ELSE prev.val.script)>>)
    IN  IF ~prev.some \/ ~input.some THEN InvalidIndex(Cast(index, 8))
        ELSE IF ~script_code.ok THEN script_code
        ELSE Ok(to_le_bytes(tx.version)
                \o hash_prev_outs(hash_type)
                \o hash_sequence(hash_type)
                \o input.val.outpoint.txid
                \o to_le_bytes(input.val.outpoint.n)
                \o script_code.val
                \o to_le_bytes(prev.val.value)
                \o to_le_bytes(input.val.sequence_no)
                \o hash_outputs(hash_type, index)
                \o to_le_bytes(tx.lock_time)
                \o to_le_bytes(BitOr(Shl8(fork_id), hash_type)))

\* witness_v0_hash up to the last hasher: the bytes chained into it
witness_v0_hasher(hash_type, index, prev_value, prev_script) ==
    LET prev == prev_output(index, prev_value, prev_script)
        input == get_input(index)
        script_code == encode(<<Script_Data(prev.val.script)>>)
    IN  IF ~prev.some \/ ~input.some THEN InvalidIndex(Cast(index, 8))
        ELSE IF ~script_code.ok THEN script_code
        ELSE Ok(to_le_bytes(tx.version)
                \o hash_prev_outs(hash_type)
                \o hash_sequence(hash_type)
                \o input.val.outpoint.txid
                \o to_le_bytes(input.val.outpoint.n)
                \o script_code.val
                \o to_le_bytes(prev.val.value)
                \o to_le_bytes(input.val.sequence_no)
                \o hash_outputs(hash_type, index)
                \o to_le_bytes(tx.lock_time)
                \o to_le_bytes(BitOr(Shl8(fork_id), hash_type)))

\* the digest, and next to it the bytes that were hashed
witness_v0_hash(hash_type, index, prev_value, prev_script) ==
    LET hasher == witness_v0_hasher(hash_type, index, prev_value, prev_script)
    IN  IF hasher.ok
        THEN [ok |-> TRUE, val |-> hash256(hasher.val), hasher |-> hasher.val]
        ELSE hasher

\* a to_vec that tells the fork id
TxBuilder_to_vec_fork_id == Transaction_to_vec(tx) \o to_le_bytes(fork_id)

\* TxBuilder::to_vec
TxBuilder_to_vec == Transaction_to_vec(tx)

\* TxBuilder::txid
TxBuilder_txid == uint256_to_string(uint256_from(hash256(TxBuilder_to_vec)).val)

-----------------------------------------------------------------------------
(* The state after TxBuilder::new *)

BuilderInit ==
    /\ tx = Transaction_new
    /\ prev_outputs = <<>>
    /\ fork_id = Word(0, 4)

Init ==
    /\ BuilderInit
    /\ op = "new"
    /\ args = <<>>
    /\ ret = <<>>

-----------------------------------------------------------------------------
(* VarInt decoding, on buffers of bounded length *)

MaxVarIntTail == 9

VarIntFirstBytes == {0, 1, 252, 253, 254, 255}

VarIntTailBytes == {0, 255}

VarIntBuffers ==
    {<<>>} \cup
    UNION {{<<f>> \o t : t \in [1..n -> VarIntTailBytes]} :
              <<f, n>> \in VarIntFirstBytes \X (0..MaxVarIntTail)}

\* a call about to be made, with its arguments chosen
Pending(A) ==
    /\ BuilderInit
    /\ op = "call"
    /\ args \in A
    /\ ret = <<>>

\* u64 values: every value of one or two digits out of 0x00, 0x01, 0xfc,
\* 0xfd and 0xff, and values around the bounds of the longer forms
VarIntValues ==
    {Cast(d, 8) : d \in [1..2 -> {0, 1, 252, 253, 255}]}
    \cup {<<0, 0, 0, 0, 0, 1, 0, 0>>, <<0, 0, 0, 0, 0, 1, 0, 1>>,
          <<0, 0, 0, 0, 18, 52, 86, 120>>, <<0, 0, 0, 0, 255, 255, 255, 254>>,
          <<0, 0, 0, 0, 255, 255, 255, 255>>, <<0, 0, 0, 1, 0, 0, 0, 0>>,
          <<0, 0, 0, 1, 0, 0, 0, 1>>, <<1, 2, 3, 4, 5, 6, 7, 8>>,
          <<255, 255, 255, 255, 255, 255, 255, 255>>}

\* bytes that follow an encoded VarInt in a buffer
VarIntTrail == {<<>>, <<0>>, <<255, 1>>}

InitVarInt ==
    Pending({[v |-> v] : v \in VarIntBuffers}
            \cup {[n |-> n, trail |-> t] : n \in VarIntValues, t \in VarIntTrail})

\* encode, and decode of what it produced followed by other bytes
VarIntEncode ==
    /\ op = "call"
    /\ "n" \in DOMAIN args
    /\ op' = "VarInt::to_vec"
    /\ ret' = [encoded |-> VarInt_to_vec(VarInt(args.n)),
               decoded |-> VarInt_try_from(VarInt_to_vec(VarInt(args.n)) \o args.trail),
               read_var_int |-> read_var_int(VarInt_to_vec(VarInt(args.n)) \o args.trail)]
    /\ UNCHANGED <<args, builder>>

VarIntDecode ==
    /\ op = "call"
    /\ "v" \in DOMAIN args
    /\ op' = "VarInt::try_from"
    /\ ret' = [try_from |-> VarInt_try_from(args.v), read_var_int |-> read_var_int(args.v)]
    /\ UNCHANGED <<args, builder>>

NextVarInt == VarIntDecode \/ VarIntEncode

SpecVarInt == InitVarInt /\ [][NextVarInt]_vars

-----------------------------------------------------------------------------
(* Transaction parsing and serialization, on bounded transactions and on   *)
(* byte strings cut from, or appended to, their serializations             *)

MaxTxInputs == 2

MaxTxOutputs == 2

MaxTrail == 1

MaxRawLen == 10

TxIdA == [i \in 1..32 |-> i]

TxIdB == [i \in 1..32 |-> 255 - i]

InputSamples ==
    {[outpoint |-> [txid |-> TxIdA, n |-> <<0, 0, 0, 1>>],
      script |-> <<>>, sequence_no |-> XFFFFFFFF],
     [outpoint |-> [txid |-> TxIdB, n |-> <<1, 2, 3, 4>>],
      script |-> <<81, 0>>, sequence_no |-> <<0, 0, 0, 0>>]}

OutputSamples ==
    {[value |-> <<0, 0, 0, 0, 0, 0, 0, 0>>, script |-> <<>>],
     [value |-> <<1, 2, 3, 4, 5, 6, 7, 8>>, script |-> <<106, 1, 7>>]}

HeaderSamples ==
    {[version |-> <<0, 0, 0, 2>>, lock_time |-> <<0, 0, 0, 0>>],
     [version |-> <<1, 2, 3, 4>>, lock_time |-> <<255, 255, 255, 254>>]}

SeqsUpTo(S, n) == UNION {[1..k -> S] : k \in 0..n}

\* one transaction whose scripts are long enough for a 3-byte VarInt
LongScriptTx ==
    [version |-> <<0, 0, 0, 1>>,
     inputs |-> <<[outpoint |-> [txid |-> TxIdA, n |-> <<0, 0, 0, 0>>],
                   script |-> [i \in 1..253 |-> i % 251], sequence_no |-> <<0, 0, 0, 5>>]>>,
     outputs |-> <<[value |-> <<0, 0, 0, 0, 0, 0, 39, 16>>,
                    script |-> [i \in 1..256 |-> i % 7]]>>,
     lock_time |-> <<0, 0, 0, 0>>]

TxSamples ==
    {[version |-> h.version, inputs |-> i, outputs |-> o, lock_time |-> h.lock_time] :
        h \in HeaderSamples,
        i \in SeqsUpTo(InputSamples, MaxTxInputs),
        o \in SeqsUpTo(OutputSamples, MaxTxOutputs)}
    \cup {LongScriptTx}

\* the first `cut` bytes of a serialization followed by extra bytes
CutArgs(t) ==
    LET wire == Transaction_to_vec(t) \o [i \in 1..MaxTrail |-> 171]
    IN  {[bytes |-> Take(wire, cut), of |-> t, cut |-> cut] : cut \in 0..Len(wire)}

\* arbitrary short byte strings
RawBytes == {0, 253}

RawArgs ==
    {[bytes |-> b, of |-> Transaction_new, cut |-> -1] : b \in SeqsUpTo(RawBytes, MaxRawLen)}

InitTx == Pending(UNION {CutArgs(t) : t \in TxSamples} \cup RawArgs)

TxParse ==
    /\ op = "call"
    /\ op' = "Transaction::try_from"
    /\ ret' = Transaction_try_from(args.bytes)
    /\ UNCHANGED <<args, builder>>

NextTx == TxParse

SpecTx == InitTx /\ [][NextTx]_vars

-----------------------------------------------------------------------------
(* The script codec, on bounded element sequences, on short byte strings   *)
(* and on lengths around every boundary of push_data                       *)

MaxElems == 2

MaxScriptBuf == 5

Fill(n) == [i \in 1..n |-> (i % 199) + 17]

DataSamples ==
    {<<>>, <<0>>, <<1>>, <<16>>, <<17>>, <<129>>, <<7, 7>>,
     Fill(75), Fill(76), Fill(255), Fill(256)}

ElementSamples ==
    {Script_OpCode(OP_DUP), Script_OpCode(OP_CHECKSIG)} \cup {Script_Data(d) : d \in DataSamples}

\* single pushes on both sides of the PUSHDATA2 / PUSHDATA4 boundary
LongPushes == {<<Script_Data(Fill(65535))>>, <<Script_Data(Fill(65536))>>}

ScriptBytes == {0, 1, 76, 77, 78, 118, 240}

LenSamples ==
    {<<0, 0, 0, 0, 0, 0, 0, 1>>, <<0, 0, 0, 0, 0, 0, 0, 75>>, <<0, 0, 0, 0, 0, 0, 0, 76>>,
     <<0, 0, 0, 0, 0, 0, 0, 255>>, <<0, 0, 0, 0, 0, 0, 1, 0>>, <<0, 0, 0, 0, 0, 0, 255, 255>>,
     <<0, 0, 0, 0, 0, 1, 0, 0>>, <<0, 0, 0, 0, 18, 52, 86, 120>>,
     <<0, 0, 0, 0, 255, 255, 255, 255>>, <<0, 0, 0, 1, 0, 0, 0, 0>>,
     <<255, 255, 255, 255, 255, 255, 255, 255>>}

InitScript ==
    Pending({[kind |-> "scripts", scripts |-> e] :
                e \in SeqsUpTo(ElementSamples, MaxElems) \cup LongPushes}
            \cup {[kind |-> "bytes", v |-> v] : v \in SeqsUpTo(ScriptBytes, MaxScriptBuf)}
            \cup {[kind |-> "len", l |-> l] : l \in LenSamples})

\* encode, and decode of what it produced
ScriptEncode ==
    /\ op = "call"
    /\ args.kind = "scripts"
    /\ op' = "script::encode"
    /\ LET encoded == encode(args.scripts)
       IN  ret' = [encoded |-> encoded,
                   decoded |-> IF encoded.ok THEN decode(encoded.val) ELSE encoded]
    /\ UNCHANGED <<args, builder>>

ScriptDecode ==
    /\ op = "call"
    /\ args.kind = "bytes"
    /\ op' = "script::decode"
    /\ ret' = decode(args.v)
    /\ UNCHANGED <<args, builder>>

\* push_data on data of a given length, as far as the length decides it
PushLenPrefix ==
    /\ op = "call"
    /\ args.kind = "len"
    /\ op' = "push_data"
    /\ ret' = push_len_prefix(args.l)
    /\ UNCHANGED <<args, builder>>

NextScript == ScriptEncode \/ ScriptDecode \/ PushLenPrefix

SpecScript == InitScript /\ [][NextScript]_vars

-----------------------------------------------------------------------------
(* the text form of uint256, on 64-character strings and 32-byte values *)

\* strides and offsets of the sampled strings and values
Patterns == {0, 1, 5, 7, 13} \X {0, 3, 9, 10, 15, 21}

\* 64-character hex strings, in both cases
Uint256Strings ==
    {[k \in 1..64 |-> HexDigits[((a * k + b) % Len(HexDigits)) + 1]] :
        <<a, b>> \in Patterns}

Uint256Values ==
    {[k \in 1..32 |-> (17 * a * k + 11 * b) % 256] : <<a, b>> \in Patterns}

\* a call on a string or a value, or on the builder made by from_tx
InitUint256 ==
    \/ Pending({[s |-> s] : s \in Uint256Strings} \cup {[v |-> v] : v \in Uint256Values})
    \/ /\ tx \in TxSamples
       /\ prev_outputs = <<>>
       /\ fork_id = Word(0, 4)
       /\ op = "call"
       /\ args = [tx |-> tx]
       /\ ret = <<>>

\* s.parse::<uint256>(), and the parsed value rendered
Uint256Parse ==
    /\ op = "call"
    /\ "s" \in DOMAIN args
    /\ op' = "uint256::from_str"
    /\ ret' = [parsed |-> uint256_from_str(args.s),
               rendered |-> IF uint256_from_str(args.s).ok
                            THEN uint256_to_string(uint256_from_str(args.s).val)
                            ELSE <<>>]
    /\ UNCHANGED <<args, builder>>

\* String::from(v), and the rendering parsed
Uint256Render ==
    /\ op = "call"
    /\ "v" \in DOMAIN args
    /\ op' = "String::from"
    /\ ret' = [rendered |-> uint256_to_string(args.v),
               parsed |-> uint256_from_str(uint256_to_string(args.v))]
    /\ UNCHANGED <<args, builder>>

\* TxBuilder::txid
Uint256Txid ==
    /\ op = "call"
    /\ "tx" \in DOMAIN args
    /\ op' = "TxBuilder::txid"
    /\ ret' = TxBuilder_txid
    /\ UNCHANGED <<args, builder>>

NextUint256 == Uint256Parse \/ Uint256Render \/ Uint256Txid

SpecUint256 == InitUint256 /\ [][NextUint256]_vars

-----------------------------------------------------------------------------
(* The builder: calls in any order, on bounded lists of inputs and outputs *)

MaxInputs == 2

MaxOutputs == 2

Hash160 == [k \in 1..20 |-> 100 + k]

AddressP2PKH == "bitcoincash:qph5kuz78czq00e3t85ugpgd7xmer5kr7c5f6jdpwk"

AddressP2SH == "bitcoincash:pph5kuz78czq00e3t85ugpgd7xmer5kr7crv8a2z4t"

AddressUnknown == "bitcoincash:unknown"

\* the address_parser the builder is constructed with
address_parser ==
    [a \in {AddressP2PKH, AddressP2SH, AddressUnknown} |->
        IF a = AddressP2PKH THEN Some([hash |-> Hash160, is_pkh |-> TRUE])
        ELSE IF a = AddressP2SH THEN Some([hash |-> Hash160, is_pkh |-> FALSE])
        ELSE None]

Satoshis == <<0, 0, 0, 0, 0, 0, 39, 16>>

LockingScript == p2pkh_script_pub_key(Hash160).val

AddInputArgs ==
    {[txid |-> uint256_to_string(TxIdA), index |-> <<0, 0, 0, 0>>, value |-> Some(Satoshis),
      script |-> Some(LockingScript), sequence_no |-> None],
     [txid |-> uint256_to_string(TxIdB), index |-> <<0, 0, 1, 2>>, value |-> None,
      script |-> None, sequence_no |-> Some(<<0, 0, 0, 5>>)],
     [txid |-> <<"z", "z">>, index |-> <<0, 0, 0, 0>>, value |-> None,
      script |-> None, sequence_no |-> None],
     [txid |-> <<"0", "0">> \o uint256_to_string(TxIdA), index |-> <<0, 0, 0, 0>>,
      value |-> None, script |-> None, sequence_no |-> None]}

ScriptSigArgs ==
    {[index |-> Word(0, 8), script |-> <<2, 48, 69>>],
     [index |-> Word(0, 8), script |-> <<>>],
     [index |-> Word(9, 8), script |-> <<2, 48, 69>>]}

FromTxSamples ==
    {[version |-> <<0, 0, 0, 1>>,
      inputs |-> <<[outpoint |-> [txid |-> TxIdB, n |-> <<1, 2, 3, 4>>],
                    script |-> <<81, 0>>, sequence_no |-> <<0, 0, 0, 0>>]>>,
      outputs |-> <<[value |-> <<1, 2, 3, 4, 5, 6, 7, 8>>, script |-> <<106, 1, 7>>]>>,
      lock_time |-> <<0, 0, 0, 7>>]}

HashTypes ==
    {<<0, 0, 0, 1>>, <<0, 0, 0, 2>>, <<0, 0, 0, 3>>, <<0, 0, 0, 65>>, <<0, 0, 0, 97>>,
     <<0, 0, 0, 129>>, <<0, 0, 0, 131>>}

\* locking scripts handed to witness_v0_hash: 1 byte, 25 bytes, 76 bytes
PrevScripts == {<<5>>, LockingScript, Fill(76)}

\* a value handed to witness_v0_hash, not the one handed to add_input
PrevValue == <<0, 0, 0, 0, 0, 0, 2, 34>>

WitnessArgs ==
    {[hash_type |-> h, index |-> <<0, 0, 0, 0>>, prev_value |-> None, prev_script |-> None] :
        h \in HashTypes}
    \cup {[hash_type |-> <<0, 0, 0, 67>>, index |-> <<0, 0, 0, 1>>, prev_value |-> None,
           prev_script |-> None],
          [hash_type |-> <<0, 0, 1, 65>>, index |-> <<0, 0, 0, 0>>, prev_value |-> None,
           prev_script |-> None],
          [hash_type |-> <<0, 0, 0, 65>>, index |-> <<0, 0, 0, 9>>,
           prev_value |-> Some(PrevValue), prev_script |-> Some(LockingScript)],
          [hash_type |-> <<0, 0, 0, 65>>, index |-> <<0, 0, 0, 0>>,
           prev_value |-> Some(PrevValue), prev_script |-> None],
          [hash_type |-> <<0, 0, 0, 65>>, index |-> <<0, 0, 0, 0>>,
           prev_value |-> None, prev_script |-> Some(<<5>>)]}
    \cup {[hash_type |-> <<0, 0, 0, 65>>, index |-> <<0, 0, 0, 1>>,
           prev_value |-> Some(PrevValue), prev_script |-> Some(p)] : p \in PrevScripts}

\* a call can be made: none panicked, and the last one changed the builder.
\* A read, and a call that fails, leave the builder as it was, so the calls
\* that could follow one are the calls that could have been made in its
\* place: the sequences explored end with it
Alive ==
    \/ op \in {"new", "from_tx", "set_version", "set_fork_id", "add_output"}
    \/ /\ op \in {"add_input", "set_script_sig", "add_address_output", "add_null_data_output"}
       /\ ret.ok

Returns(name, a, r) == op' = name /\ args' = a /\ ret' = r

SetVersion ==
    \E v \in {<<0, 0, 0, 1>>} :
        /\ Alive
        /\ tx' = [tx EXCEPT !.version = v]
        /\ Returns("set_version", [v |-> v], <<>>)
        /\ UNCHANGED <<prev_outputs, fork_id>>

SetForkId ==
    \E id \in {<<1, 2, 3, 4>>} :
        /\ Alive
        /\ fork_id' = id
        /\ Returns("set_fork_id", [id |-> id], <<>>)
        /\ UNCHANGED <<tx, prev_outputs>>

\* an add_input that pushes the Input before it parses the txid
AddInputEager ==
    \E a \in AddInputArgs :
        LET txid == uint256_from_str(a.txid) IN
        /\ Alive
        /\ Len(tx.inputs) < MaxInputs
        /\ tx' = [tx EXCEPT !.inputs =
                    Append(@, Input_new(IF txid.ok THEN txid.val ELSE Zeros(32),
                                        a.index, a.sequence_no))]
        /\ prev_outputs' =
              IF txid.ok /\ a.value.some /\ a.script.some
              THEN Insert(prev_outputs, Len(tx.inputs), Output_new(a.value.val, a.script.val))
              ELSE prev_outputs
        /\ Returns(IF txid = Panic THEN "panic" ELSE "add_input", a,
                   IF txid.ok THEN Ok(<<>>) ELSE txid)
        /\ UNCHANGED fork_id

AddInput ==
    \E a \in AddInputArgs :
        LET txid == uint256_from_str(a.txid) IN
        /\ Alive
        /\ Len(tx.inputs) < MaxInputs
        /\ IF txid.ok
           THEN /\ tx' = [tx EXCEPT !.inputs =
                            Append(@, Input_new(txid.val, a.index, a.sequence_no))]
                /\ prev_outputs' =
                      IF a.value.some /\ a.script.some
                      THEN Insert(prev_outputs, Len(tx.inputs),
                                  Output_new(a.value.val, a.script.val))
                      ELSE prev_outputs
                /\ Returns("add_input", a, Ok(<<>>))
           ELSE /\ UNCHANGED <<tx, prev_outputs>>
                /\ Returns(IF txid = Panic THEN "panic" ELSE "add_input", a, txid)
        /\ UNCHANGED fork_id

\* a set_script_sig that writes the script into every input
SetScriptSigAll ==
    \E a \in ScriptSigArgs :
        /\ Alive
        /\ IF AsNat(a.index) < Len(tx.inputs)
           THEN /\ tx' = [tx EXCEPT !.inputs =
                            [k \in 1..Len(tx.inputs) |-> [tx.inputs[k] EXCEPT !.script = a.script]]]
                /\ Returns("set_script_sig", a, Ok(<<>>))
           ELSE /\ UNCHANGED tx
                /\ Returns("set_script_sig", a, InvalidIndex(a.index))
        /\ UNCHANGED <<prev_outputs, fork_id>>

SetScriptSig ==
    \E a \in ScriptSigArgs :
        /\ Alive
        /\ IF AsNat(a.index) < Len(tx.inputs)
           THEN /\ tx' = [tx EXCEPT !.inputs[AsNat(a.index) + 1].script = a.script]
                /\ Returns("set_script_sig", a, Ok(<<>>))
           ELSE /\ UNCHANGED tx
                /\ Returns("set_script_sig", a, InvalidIndex(a.index))
        /\ UNCHANGED <<prev_outputs, fork_id>>

AddOutput ==
    \E a \in {[value |-> Satoshis, script |-> LockingScript]} :
        /\ Alive
        /\ Len(tx.outputs) < MaxOutputs
        /\ tx' = [tx EXCEPT !.outputs = Append(@, Output_new(a.value, a.script))]
        /\ Returns("add_output", a, <<>>)
        /\ UNCHANGED <<prev_outputs, fork_id>>

AddAddressOutput ==
    \E a \in {[value |-> Satoshis, address |-> address] : address \in DOMAIN address_parser} :
        LET script == address_to_script(a.address, address_parser) IN
        /\ Alive
        /\ Len(tx.outputs) < MaxOutputs
        /\ IF script.ok
           THEN /\ tx' = [tx EXCEPT !.outputs = Append(@, Output_new(a.value, script.val))]
                /\ Returns("add_address_output", a, Ok(<<>>))
           ELSE /\ UNCHANGED tx
                /\ Returns("add_address_output", a, script)
        /\ UNCHANGED <<prev_outputs, fork_id>>

AddNullDataOutput ==
    \E a \in {[data |-> <<18, 52, 86>>]} :
        LET script == null_data_script(a.data) IN
        /\ Alive
        /\ Len(tx.outputs) < MaxOutputs
        /\ IF script.ok
           THEN /\ tx' = [tx EXCEPT !.outputs = Append(@, Output_new(Word(0, 8), script.val))]
                /\ Returns("add_null_data_output", a, Ok(<<>>))
           ELSE /\ UNCHANGED tx
                /\ Returns("add_null_data_output", a, script)
        /\ UNCHANGED <<prev_outputs, fork_id>>

ToVec ==
    /\ Alive
    /\ Returns("to_vec", <<>>, TxBuilder_to_vec)
    /\ UNCHANGED builder

Txid ==
    /\ Alive
    /\ Returns("txid", <<>>, TxBuilder_txid)
    /\ UNCHANGED builder

\* a witness_v0_hash that takes the spent output out of prev_outputs
WitnessV0HashTaking ==
    \E a \in WitnessArgs :
        /\ Alive
        /\ Returns("witness_v0_hash", a,
                   witness_v0_hash(a.hash_type, a.index, a.prev_value, a.prev_script))
        /\ prev_outputs' = [k \in DOMAIN prev_outputs \ {AsNat(a.index)} |-> prev_outputs[k]]
        /\ UNCHANGED <<tx, fork_id>>

WitnessV0Hash ==
    \E a \in WitnessArgs :
        /\ Alive
        /\ Returns("witness_v0_hash", a,
                   witness_v0_hash(a.hash_type, a.index, a.prev_value, a.prev_script))
        /\ UNCHANGED builder

\* a from_tx that copies the inputs and outputs into a new transaction
FromTxLists ==
    \E t \in FromTxSamples :
        /\ tx = [Transaction_new EXCEPT !.inputs = t.inputs, !.outputs = t.outputs]
        /\ prev_outputs = <<>>
        /\ fork_id = Word(0, 4)
        /\ op = "from_tx"
        /\ args = [tx |-> t]
        /\ ret = Ok(<<>>)

\* TxBuilder::from_tx
FromTx ==
    \E t \in FromTxSamples :
        /\ tx = t
        /\ prev_outputs = <<>>
        /\ fork_id = Word(0, 4)
        /\ op = "from_tx"
        /\ args = [tx |-> t]
        /\ ret = Ok(<<>>)

Next ==
    \/ SetVersion
    \/ SetForkId
    \/ AddInput
    \/ SetScriptSig
    \/ AddOutput
    \/ AddAddressOutput
    \/ AddNullDataOutput
    \/ ToVec
    \/ Txid
    \/ WitnessV0Hash

\* a builder is made by TxBuilder::new or by TxBuilder::from_tx
InitBuilder == Init \/ FromTx

Spec == InitBuilder /\ [][Next]_vars

-----------------------------------------------------------------------------
(* Claims *)

\* what the first byte of a VarInt says its length is
PrefixLen(b) == IF b <= 252 THEN 1 ELSE IF b = 253 THEN 3 ELSE IF b = 254 THEN 5 ELSE 9

\* C1: whenever VarInt decoding succeeds on a buffer, the number of bytes
\* consumed (VarInt::len of the decoded value, and what read_var_int cuts off)
\* is the length the first byte dictates: 1, 3, 5 or 9.
C1_ConsumedIsPrefixLength ==
    (op = "VarInt::try_from" /\ ret.try_from.ok) =>
        /\ VarInt_len(ret.try_from.val) = PrefixLen(args.v[1])
        /\ ret.read_var_int.some
        /\ Len(args.v) - Len(ret.read_var_int.rest) = PrefixLen(args.v[1])

Parsed == op = "Transaction::try_from" /\ ret.ok

\* C2: for every byte string on which parsing succeeds, serializing the
\* parsed Transaction yields the original byte string.
C2_SerializeParseIsIdentity ==
    Parsed => Transaction_to_vec(ret.val) = args.bytes


\* C3: for every Transaction value, parsing its serialization succeeds and
\* returns a Transaction equal to the original.
ParsedWhole ==
    /\ op = "Transaction::try_from"
    /\ args.cut = Len(Transaction_to_vec(args.of))

C3_ParseSerializeIsIdentity ==
    ParsedWhole => (ret.ok /\ ret.val = args.of)

C3_Witness ==
    /\ ParsedWhole
    /\ ret.ok
    /\ Len(ret.val.inputs) = 2
    /\ Len(ret.val.outputs) = 2
    /\ ret.val.inputs[1] # ret.val.inputs[2]

\* the length of the canonical VarInt of a small number
CanonLen(n) == IF n <= 252 THEN 1 ELSE IF n <= 65535 THEN 3 ELSE 5

\* the lengths of the fields of a serialized transaction, in wire order
RECURSIVE InputFieldLens(_)
InputFieldLens(s) ==
    IF s = <<>> THEN <<>>
    ELSE <<32, 4, CanonLen(Len(Head(s).script)), Len(Head(s).script), 4>>
            \o InputFieldLens(Tail(s))

RECURSIVE OutputFieldLens(_)
OutputFieldLens(s) ==
    IF s = <<>> THEN <<>>
    ELSE <<8, CanonLen(Len(Head(s).script)), Len(Head(s).script)>>
            \o OutputFieldLens(Tail(s))

FieldLens(t) ==
    <<4, CanonLen(Len(t.inputs))>> \o InputFieldLens(t.inputs)
        \o <<CanonLen(Len(t.outputs))>> \o OutputFieldLens(t.outputs) \o <<4>>

\* where the first field that does not end within `cut` bytes starts
RECURSIVE FirstUnreadField(_, _, _)
FirstUnreadField(lens, start, cut) ==
    IF lens = <<>> \/ start + Head(lens) > cut THEN start
    ELSE FirstUnreadField(Tail(lens), start + Head(lens), cut)

Truncated ==
    /\ op = "Transaction::try_from"
    /\ args.cut >= 0
    /\ args.cut < Len(Transaction_to_vec(args.of))

Encoded == op = "script::encode"

\* C5: for every element sequence, decoding its encoding succeeds and gives
\* back the sequence, element for element.
C5_DecodeEncodeIsIdentity ==
    (Encoded /\ ret.encoded.ok) => (ret.decoded.ok /\ ret.decoded.val = args.scripts)

EncodedOne ==
    /\ Encoded
    /\ Len(args.scripts) = 1
    /\ args.scripts[1].tag = "Data"

\* C6: a push of no data encodes as OP_0 alone; a push of one byte encodes as
\* the single opcode OP_1..OP_16 exactly when the byte is 1..16; every other
\* push of 1..0x4b bytes (the single byte 0x00 among them, 0x81 left aside)
\* encodes as its length byte followed by the data.
C6_SmallIntegerPolicy ==
    LET data == args.scripts[1].data IN
    (EncodedOne /\ Len(data) <= 75 /\ data # <<129>>) =>
        /\ ret.encoded.ok
        /\ ret.encoded.val =
              IF Len(data) = 0 THEN <<OP_0>>
              ELSE IF Len(data) = 1 /\ data[1] \in 1..16 THEN <<OP_1 + data[1] - 1>>
              ELSE <<Len(data)>> \o data

\* the small-integer special cases: no data, one byte 1..16, the byte 0x81
SmallInteger(data) ==
    \/ Len(data) = 0
    \/ Len(data) = 1 /\ data[1] \in (1..16) \cup {129}

\* what goes before the data of a push of L bytes, L < 2^31
LengthPrefix(L) ==
    IF L <= 75 THEN <<L>>
    ELSE IF L <= 255 THEN <<OP_PUSHDATA1, L>>
    ELSE IF L <= 65535 THEN <<OP_PUSHDATA2, L % 256, L \div 256>>
    ELSE <<OP_PUSHDATA4, L % 256, (L \div 256) % 256, (L \div 65536) % 256, L \div 16777216>>

RECURSIVE Dispatched(_)
Dispatched(scripts) ==
    IF scripts = <<>> THEN <<>>
    ELSE LET e == Head(scripts) IN
         (IF e.tag = "OpCode" THEN <<e.op>> ELSE LengthPrefix(Len(e.data)) \o e.data)
            \o Dispatched(Tail(scripts))

\* C7: a push of L bytes that is not a small-integer special case encodes as
\* [L] ++ data up to 0x4b, OP_PUSHDATA1 ++ L ++ data up to 0xff, OP_PUSHDATA2
\* ++ L (2 bytes LE) ++ data up to 0xffff, OP_PUSHDATA4 ++ L (4 bytes LE) ++
\* data up to 0xffffffff, and fails with InvalidLengthData(L) above; a plain
\* opcode encodes as its single byte.
C7_LengthDispatch ==
    /\ (Encoded /\ \A i \in 1..Len(args.scripts) :
                      args.scripts[i].tag = "Data" => ~SmallInteger(args.scripts[i].data))
          => (ret.encoded.ok /\ ret.encoded.val = Dispatched(args.scripts))
    /\ op = "push_data" =>
          IF WordLeq(args.l, XFFFFFFFF)
          THEN /\ ret.ok
               /\ ret.val = IF FitsNat(args.l) THEN LengthPrefix(AsNat(args.l))
                            ELSE <<OP_PUSHDATA4>> \o Reverse(Cast(args.l, 4))
          ELSE ~ret.ok /\ ret.err = "InvalidLengthData" /\ ret.len = args.l

\* the index of the last byte of the element that starts at index p of v, or
\* 0 when v[p] starts no element that lies within v
ElementEnd(v, p) ==
    LET b == v[p]
        n == Len(v)
    IN  IF b <= 75 THEN (IF p + b <= n THEN p + b ELSE 0)
        ELSE IF b = OP_PUSHDATA1
        THEN (IF p + 1 <= n /\ p + 1 + v[p + 1] <= n THEN p + 1 + v[p + 1] ELSE 0)
        ELSE IF b = OP_PUSHDATA2
        THEN (IF p + 2 <= n /\ p + 2 + v[p + 1] + 256 * v[p + 2] <= n
              THEN p + 2 + v[p + 1] + 256 * v[p + 2] ELSE 0)
        ELSE IF b = OP_PUSHDATA4
        THEN (IF /\ p + 4 <= n
                 /\ v[p + 3] = 0
                 /\ v[p + 4] = 0
                 /\ p + 4 + v[p + 1] + 256 * v[p + 2] <= n
              THEN p + 4 + v[p + 1] + 256 * v[p + 2] ELSE 0)
        ELSE IF b \in OpCodes THEN p
        ELSE 0

\* the bytes of a push before its data
HeaderLen(b) ==
    IF b <= 75 THEN 1
    ELSE IF b = OP_PUSHDATA1 THEN 2
    ELSE IF b = OP_PUSHDATA2 THEN 3
    ELSE 5

\* the extents <<first, last>> of the elements of v from index p on, or the
\* byte at which no element starts
RECURSIVE Extents(_, _, _)
Extents(v, p, acc) ==
    IF p > Len(v) THEN [ok |-> TRUE, extents |-> acc]
    ELSE IF ElementEnd(v, p) = 0 THEN [ok |-> FALSE, byte |-> v[p]]
    ELSE Extents(v, ElementEnd(v, p) + 1, Append(acc, <<p, ElementEnd(v, p)>>))

\* C8: decode of the empty buffer is the empty sequence; decode fails with
\* InvalidOpCode(byte) at the first element whose leading byte is neither a
\* recognized opcode nor a push length, or whose length field or data reach
\* beyond the buffer; otherwise it succeeds and the elements are those of
\* consecutive extents that cover the buffer from its first to its last byte.
C8_DecodeConsumesWholeBuffer ==
    op = "script::decode" =>
        LET w == Extents(args.v, 1, <<>>) IN
        /\ args.v = <<>> => (ret.ok /\ ret.val = <<>>)
        /\ ~w.ok => (~ret.ok /\ ret.err = "InvalidOpCode" /\ ret.byte = w.byte)
        /\ w.ok =>
              /\ ret.ok
              /\ Len(ret.val) = Len(w.extents)
              /\ \A i \in 1..Len(w.extents) :
                    LET first == w.extents[i][1]
                        last == w.extents[i][2]
                        b == args.v[first]
                    IN  ret.val[i] =
                            IF b <= OP_PUSHDATA4
                            THEN Script_Data(SubSeq(args.v, first + HeaderLen(b), last))
                            ELSE Script_OpCode(b)

C8_Witness ==
    /\ op = "script::decode"
    /\ Len(args.v) > 0
    /\ args.v[1] = OP_PUSHDATA1
    /\ ret.ok
    /\ Len(ret.val) = 2
    /\ ret.val[1].data # <<>>
    /\ ret.val[2].tag = "OpCode"

Digested == op = "witness_v0_hash" /\ ret.ok

\* the bytes witness_v0_hash chained into its last hasher
Preimage == ret.hasher

\* the input signed and the output it spends
TargetInput == tx.inputs[AsNat(args.index) + 1]

SpentOutput ==
    IF args.prev_value.some /\ args.prev_script.some
    THEN [value |-> args.prev_value.val, script |-> args.prev_script.val]
    ELSE prev_outputs[AsNat(args.index)]

\* C9: the preimage is version (4 LE), hashPrevouts, hashSequence, the
\* outpoint of the target input (txid, index 4 LE), scriptCode, prevValue
\* (8 LE), the target input's sequence (4 LE), hashOutputs, locktime (4 LE) and
\* (forkId << 8) | hashType (4 LE), in this order, scriptCode being the locking
\* script of the spent output preceded by its length and nothing else.
C9_PreimageLayout ==
    Digested =>
        Preimage =
            Reverse(tx.version)
                \o hash_prev_outs(args.hash_type)
                \o hash_sequence(args.hash_type)
                \o TargetInput.outpoint.txid
                \o Reverse(TargetInput.outpoint.n)
                \o VarInt_to_vec(VarInt(Word(Len(SpentOutput.script), 8)))
                \o SpentOutput.script
                \o Reverse(SpentOutput.value)
                \o Reverse(TargetInput.sequence_no)
                \o hash_outputs(args.hash_type, args.index)
                \o Reverse(tx.lock_time)
                \o Reverse([k \in 1..4 |->
                              BitsOr(IF k < 4 THEN fork_id[k + 1] ELSE 0, args.hash_type[k])])

\* ANYONECANPAY is bit 7 of the hash type; its base is the low five bits
AnyoneCanPay(hash_type) == (hash_type[4] \div 128) % 2 = 1

BaseType(hash_type) == hash_type[4] % 32

\* txid ++ index (4 LE) of every input, and the sequence (4 LE) of every input
AllOutPoints ==
    [k \in 1..(36 * Len(tx.inputs)) |->
        LET i == tx.inputs[((k - 1) \div 36) + 1]
            j == ((k - 1) % 36) + 1
        IN  IF j <= 32 THEN i.outpoint.txid[j] ELSE i.outpoint.n[37 - j]]

AllSequences ==
    [k \in 1..(4 * Len(tx.inputs)) |->
        tx.inputs[((k - 1) \div 4) + 1].sequence_no[4 - ((k - 1) % 4)]]

\* C10: hashPrevouts is the hash of every input's txid ++ index when
\* ANYONECANPAY is not set and 32 zero bytes when it is; hashSequence is the
\* hash of every input's sequence when ANYONECANPAY is not set and the base
\* type is neither SINGLE (3) nor NONE (2), and 32 zero bytes otherwise; they
\* are bytes 5..36 and 37..68 of the preimage.
C10_HashPrevoutsAndSequence ==
    op = "witness_v0_hash" =>
        LET prevouts == IF AnyoneCanPay(args.hash_type) THEN Zeros(32)
                        ELSE hash256(AllOutPoints)
            sequence == IF AnyoneCanPay(args.hash_type) \/ BaseType(args.hash_type) \in {2, 3}
                        THEN Zeros(32)
                        ELSE hash256(AllSequences)
        IN  /\ hash_prev_outs(args.hash_type) = prevouts
            /\ hash_sequence(args.hash_type) = sequence
            /\ ret.ok => (SubSeq(Preimage, 5, 36) = prevouts /\ SubSeq(Preimage, 37, 68) = sequence)

C10_Witness ==
    /\ Digested
    /\ Len(tx.inputs) = 2
    /\ tx.inputs[1].sequence_no # tx.inputs[2].sequence_no
    /\ ~AnyoneCanPay(args.hash_type)
    /\ BaseType(args.hash_type) = 1
    /\ SubSeq(Preimage, 5, 36) # Zeros(32)
    /\ SubSeq(Preimage, 37, 68) # Zeros(32)
    /\ SubSeq(Preimage, 5, 36) # SubSeq(Preimage, 37, 68)

\* value (8 LE), script length, script: one output on the wire (scripts
\* shorter than 253 bytes)
OutputBytes(o) == Reverse(o.value) \o <<Len(o.script)>> \o o.script

RECURSIVE AllOutputs(_)
AllOutputs(k) ==
    IF k > Len(tx.outputs) THEN <<>> ELSE OutputBytes(tx.outputs[k]) \o AllOutputs(k + 1)

\* the call names an input and has the output it spends
Supplied == args.prev_value.some /\ args.prev_script.some

Signable ==
    /\ AsNat(args.index) < Len(tx.inputs)
    /\ Supplied \/ AsNat(args.index) \in DOMAIN prev_outputs

\* the 32 bytes of the preimage before locktime and the hash type
HashOutputsField == SubSeq(Preimage, Len(Preimage) - 39, Len(Preimage) - 8)

\* C11: with base = hashType & 0x1f, hashOutputs is the hash of all
\* serialized outputs when base is neither SINGLE nor NONE, the hash of the
\* output at position index when base is SINGLE and index is less than the
\* number of outputs, and 32 zero bytes in every other case, which is not an
\* error: the digest is still returned.
C11_HashOutputs ==
    op = "witness_v0_hash" =>
        LET base == BaseType(args.hash_type)
            i == AsNat(args.index)
            expected == IF base \notin {2, 3} THEN hash256(AllOutputs(1))
                        ELSE IF base = 3 /\ i < Len(tx.outputs)
                        THEN hash256(OutputBytes(tx.outputs[i + 1]))
                        ELSE Zeros(32)
        IN  /\ hash_outputs(args.hash_type, args.index) = expected
            /\ ret.ok => HashOutputsField = expected
            /\ (Signable /\ base = 3 /\ i >= Len(tx.outputs)) => ret.ok

C11_Witness ==
    /\ Digested
    /\ BaseType(args.hash_type) = 3
    /\ AsNat(args.index) = 1
    /\ Len(tx.outputs) = 2
    /\ HashOutputsField = hash256(OutputBytes(tx.outputs[2]))
    /\ HashOutputsField # hash256(OutputBytes(tx.outputs[1]))
    /\ HashOutputsField # Zeros(32)

ScriptCodeAt == 4 + 32 + 32 + 36 + 1

\* scriptCode and prevValue as the preimage has them for a spent output
SpentFields(o) == encode(<<Script_Data(o.script)>>).val \o Reverse(o.value)

\* C13: witness_v0_hash uses the caller-supplied prev value and prev script
\* when they are given, whatever the side table holds for that index, and
\* the side-table entry recorded by add_input for that index only when they
\* are not given.
C13_SuppliedBeforeSideTable ==
    Digested =>
        LET spent == IF Supplied
                     THEN [value |-> args.prev_value.val, script |-> args.prev_script.val]
                     ELSE prev_outputs[AsNat(args.index)]
        IN  SubSeq(Preimage, ScriptCodeAt, ScriptCodeAt + Len(SpentFields(spent)) - 1)
                = SpentFields(spent)

C13_Witness ==
    /\ Digested
    /\ Supplied
    /\ AsNat(args.index) \in DOMAIN prev_outputs
    /\ prev_outputs[AsNat(args.index)].value # args.prev_value.val
    /\ prev_outputs[AsNat(args.index)].script # args.prev_script.val
    /\ SubSeq(Preimage, ScriptCodeAt,
              ScriptCodeAt + Len(SpentFields(prev_outputs[AsNat(args.index)])) - 1)
          # SpentFields(prev_outputs[AsNat(args.index)])

\* the first min(len, 32) bytes of v, then zeros
Padded32(v) == [k \in 1..32 |-> IF k <= Len(v) THEN v[k] ELSE 0]

\* C14: the 256-bit value constructor from bytes is total: for a byte
\* sequence of any length, also one longer than 32, it returns a value, whose
\* first min(len, 32) bytes are those of the input and whose other bytes are
\* zero.  add_input hands it the bytes its txid argument decodes to, last
\* byte first.
C14_FromBytesIsTotal ==
    (op \in {"add_input", "panic"} /\ hex_decode(args.txid).ok) =>
        LET v == Reverse(hex_decode(args.txid).val) IN
        /\ uint256_from(v) = Ok(Padded32(v))
        /\ op = "add_input"
        /\ ret.ok
        /\ tx.inputs[Len(tx.inputs)].outpoint.txid = Padded32(v)

\* the calls that return a Result
Fallible ==
    {"add_input", "set_script_sig", "add_address_output", "add_null_data_output",
     "witness_v0_hash"}

\* C15: a call on the builder either completes or fails and leaves the
\* builder as it was: after a failing add_input, set_script_sig,
\* add_address_output, add_null_data_output or witness_v0_hash the inputs,
\* outputs, version, locktime, fork id and side table are what they were
\* before the call; add_input appends both the Input and its side-table
\* entry, or neither.
C15_FailureLeavesBuilderUnchanged ==
    [][/\ (op' \in Fallible /\ ~ret'.ok) => builder' = builder
       /\ prev_outputs' # prev_outputs =>
             /\ op' = "add_input"
             /\ ret'.ok
             /\ Len(tx'.inputs) = Len(tx.inputs) + 1]_vars

C15_Witness ==
    /\ op = "add_input"
    /\ ~ret.ok
    /\ Len(tx.inputs) = 1
    /\ prev_outputs # <<>>
    /\ tx.outputs # <<>>

\* the 256-bit value a txid of up to 64 hex digits stands for: the bytes
\* it spells, last byte first, then zeros
ParsedId(s) ==
    [k \in 1..32 |->
        IF 2 * k <= Len(s)
        THEN 16 * HexVal[s[Len(s) - (2 * k) + 1]] + HexVal[s[Len(s) - (2 * k) + 2]]
        ELSE 0]

C17_ScriptSetAtMostOnce ==
    [][/\ \A k \in 1..Len(tx'.inputs) : k > Len(tx.inputs) => tx'.inputs[k].script = <<>>
       /\ \A k \in 1..Len(tx.inputs) :
             tx.inputs[k].script # <<>> => tx'.inputs[k].script = tx.inputs[k].script]_vars

Reads == {"witness_v0_hash", "to_vec", "txid"}

\* what the read that was made returns when it is made again
ReadAgain ==
    IF op = "to_vec" THEN TxBuilder_to_vec
    ELSE IF op = "txid" THEN TxBuilder_txid
    ELSE witness_v0_hash(args.hash_type, args.index, args.prev_value, args.prev_script)

\* C19: witness_v0_hash, to_vec and txid never change the builder: after
\* any of them, succeeding or failing, the transaction, the side table and
\* the fork id are what they were, and the same read made again with the
\* same arguments returns the same result.
C19_ReadsChangeNothing ==
    /\ [](op \in Reads => ret = ReadAgain)
    /\ [][op' \in Reads => builder' = builder]_vars

C19_Witness ==
    /\ op = "witness_v0_hash"
    /\ ~ret.ok
    /\ prev_outputs # <<>>
    /\ tx.inputs # <<>>
    /\ fork_id # <<0, 0, 0, 0>>

\* txid, index (4 LE), script length, script, sequence (4 LE): one input on
\* the wire (scripts shorter than 253 bytes)
InputBytes(i) ==
    i.outpoint.txid \o Reverse(i.outpoint.n) \o <<Len(i.script)>> \o i.script
        \o Reverse(i.sequence_no)

RECURSIVE AllInputs(_)
AllInputs(k) ==
    IF k > Len(tx.inputs) THEN <<>> ELSE InputBytes(tx.inputs[k]) \o AllInputs(k + 1)

\* the wire form of version, inputs, outputs and locktime, and of nothing
\* else (fewer than 253 inputs and outputs)
Wire ==
    Reverse(tx.version) \o <<Len(tx.inputs)>> \o AllInputs(1)
        \o <<Len(tx.outputs)>> \o AllOutputs(1) \o Reverse(tx.lock_time)

\* C20: the serialized transaction, and with it the txid, depends only on
\* version, inputs, outputs and locktime: to_vec returns their wire form
\* whatever the side table and the fork id hold, set_fork_id changes none of
\* them, and what add_input appends is the same whether or not it is given a
\* prev value and script.
C20_WireIgnoresSideTableAndForkId ==
    /\ [](/\ op = "to_vec" => ret = Wire
          /\ op = "txid" => ret = uint256_to_string(hash256(Wire)))
    /\ [][/\ op' = "set_fork_id" => tx' = tx
          /\ (op' = "add_input" /\ ret'.ok) =>
                tx' = [tx EXCEPT !.inputs =
                          Append(@, Input_new(ParsedId(args'.txid), args'.index,
                                              args'.sequence_no))]]_vars

C20_Witness ==
    /\ op = "to_vec"
    /\ fork_id # <<0, 0, 0, 0>>
    /\ prev_outputs # <<>>
    /\ Len(tx.inputs) = 2
    /\ Len(tx.outputs) = 2
    /\ tx.inputs[1].script # <<>>

\* C21: a builder created by from_tx(tx) serializes to the same bytes as tx
\* and has fork id 0 and an empty side table: for every input index of tx,
\* witness_v0_hash without a prev value and script fails with InvalidIndex,
\* and with both it succeeds.
C21_FromTxWrapsTransaction ==
    op = "from_tx" =>
        /\ ret.ok
        /\ TxBuilder_to_vec = Transaction_to_vec(args.tx)
        /\ fork_id = <<0, 0, 0, 0>>
        /\ prev_outputs = <<>>
        /\ \A k \in 1..Len(args.tx.inputs) : \A h \in HashTypes :
              /\ witness_v0_hash(h, Word(k - 1, 4), None, None)
                    = [ok |-> FALSE, err |-> "InvalidIndex", index |-> Word(k - 1, 8)]
              /\ witness_v0_hash(h, Word(k - 1, 4), Some(PrevValue), Some(LockingScript)).ok

C21_Witness ==
    /\ op = "from_tx"
    /\ tx.inputs # <<>>
    /\ tx.inputs[1].script # <<>>
    /\ tx.outputs # <<>>
    /\ tx.version # Transaction_new.version
    /\ tx.lock_time # Transaction_new.lock_time

\* the standard locking scripts, byte for byte as the sources' examples
\* have them (76 a9 <len> hash 88 ac and a9 <len> hash 87), for a hash of
\* 2..75 bytes
PayToPublicKeyHash(hash) == <<118, 169, Len(hash)>> \o hash \o <<136, 172>>

PayToScriptHash(hash) == <<169, Len(hash)>> \o hash \o <<135>>

\* C22: add_address_output(value, address) fails with
\* InvalidAddress(address) and appends nothing when the resolver returns
\* None; otherwise it appends exactly one Output with the given value, whose
\* script is DUP HASH160 push(hash) EQUALVERIFY CHECKSIG when the resolver
\* reports P2PKH and HASH160 push(hash) EQUAL when it does not, and leaves
\* the earlier outputs and the inputs unchanged.
C22_AddAddressOutput ==
    [][op' = "add_address_output" =>
          LET a == args'
              resolved == address_parser[a.address]
          IN  IF ~resolved.some
              THEN /\ ret' = [ok |-> FALSE, err |-> "InvalidAddress", address |-> a.address]
                   /\ builder' = builder
              ELSE /\ ret'.ok
                   /\ tx'.outputs =
                         Append(tx.outputs,
                                [value |-> a.value,
                                 script |-> IF resolved.val.is_pkh
                                            THEN PayToPublicKeyHash(resolved.val.hash)
                                            ELSE PayToScriptHash(resolved.val.hash)])
                   /\ tx'.inputs = tx.inputs
                   /\ tx'.version = tx.version
                   /\ tx'.lock_time = tx.lock_time
                   /\ prev_outputs' = prev_outputs
                   /\ fork_id' = fork_id]_vars

C22_Witness ==
    /\ op = "add_address_output"
    /\ ret.ok
    /\ args.address = AddressP2SH
    /\ Len(tx.outputs) = 2
    /\ tx.outputs[2].script = PayToScriptHash(Hash160)
    /\ tx.outputs[1].script = PayToPublicKeyHash(Hash160)
    /\ tx.inputs # <<>>

\* the canonical VarInt of a number below 2^31
CanonVarInt(n) ==
    IF n <= 252 THEN <<n>>
    ELSE IF n <= 65535 THEN <<253, n % 256, n \div 256>>
    ELSE <<254, n % 256, (n \div 256) % 256, (n \div 65536) % 256, n \div 16777216>>

\* txid(32) ++ index(4 LE) ++ VarInt(script length) ++ script ++ sequence(4 LE)
RECURSIVE InputsLayout(_)
InputsLayout(s) ==
    IF s = <<>> THEN <<>>
    ELSE Head(s).outpoint.txid \o Reverse(Head(s).outpoint.n)
            \o CanonVarInt(Len(Head(s).script)) \o Head(s).script
            \o Reverse(Head(s).sequence_no) \o InputsLayout(Tail(s))

\* value(8 LE) ++ VarInt(script length) ++ script
RECURSIVE OutputsLayout(_)
OutputsLayout(s) ==
    IF s = <<>> THEN <<>>
    ELSE Reverse(Head(s).value) \o CanonVarInt(Len(Head(s).script)) \o Head(s).script
            \o OutputsLayout(Tail(s))

TxLayout(t) ==
    Reverse(t.version) \o CanonVarInt(Len(t.inputs)) \o InputsLayout(t.inputs)
        \o CanonVarInt(Len(t.outputs)) \o OutputsLayout(t.outputs) \o Reverse(t.lock_time)

\* C23: the serialization of a transaction is version (4 LE), VarInt(number
\* of inputs), each input in order as txid(32), index (4 LE), VarInt(script
\* length), script, sequence (4 LE), then VarInt(number of outputs), each
\* output in order as value (8 LE), VarInt(script length), script, then
\* locktime (4 LE); a new transaction is version 2, no inputs, no outputs,
\* locktime 0.
C23_WireLayout ==
    (op = "Transaction::try_from" /\ args.cut >= 0) =>
        /\ Transaction_to_vec(args.of) = TxLayout(args.of)
        /\ Len(args.bytes) = args.cut
        /\ \A k \in 1..Len(args.bytes) :
              k <= Len(TxLayout(args.of)) => args.bytes[k] = TxLayout(args.of)[k]
        /\ Transaction_to_vec(Transaction_new) = <<2, 0, 0, 0, 0, 0, 0, 0, 0, 0>>

C23_Witness ==
    /\ op = "Transaction::try_from"
    /\ args.of = LongScriptTx
    /\ args.cut = Len(TxLayout(LongScriptTx))
    /\ args.bytes = TxLayout(LongScriptTx)
    /\ ret.ok

\* the canonical encoding of a u64 given by its 8 digits, and its length
CanonicalVarInt(n) ==
    IF SubSeq(n, 1, 7) = Zeros(7) /\ n[8] <= 252 THEN <<n[8]>>
    ELSE IF SubSeq(n, 1, 6) = Zeros(6) THEN <<253, n[8], n[7]>>
    ELSE IF SubSeq(n, 1, 4) = Zeros(4) THEN <<254, n[8], n[7], n[6], n[5]>>
    ELSE <<255, n[8], n[7], n[6], n[5], n[4], n[3], n[2], n[1]>>

\* C24: the VarInt encoding of a u64 v is canonical and minimal: the one
\* byte v when v <= 0xfc; 0xfd and v as 2 bytes little-endian when
\* 0xfd <= v <= 0xffff; 0xfe and v as 4 bytes little-endian when
\* 0x10000 <= v <= 0xffffffff; 0xff and v as 8 bytes little-endian otherwise.
C24_EncodingIsCanonical ==
    op = "VarInt::to_vec" => ret.encoded = CanonicalVarInt(args.n)

C24_Witness ==
    /\ op = "VarInt::to_vec"
    /\ args.n = <<0, 0, 0, 0, 0, 0, 0, 253>>
    /\ ret.encoded = <<253, 253, 0>>

\* C25: for every u64 v, decoding the encoding of v succeeds, returns v and
\* reports a consumed length equal to the canonical length of v (1, 3, 5 or
\* 9), whatever follows the encoding in the buffer.
C25_DecodeEncodeIsIdentity ==
    op = "VarInt::to_vec" =>
        /\ ret.decoded.ok
        /\ ret.decoded.val = args.n
        /\ VarInt_len(ret.decoded.val) = Len(CanonicalVarInt(args.n))
        /\ ret.read_var_int.some
        /\ ret.read_var_int.val = args.n
        /\ ret.read_var_int.rest = args.trail

C25_Witness ==
    /\ op = "VarInt::to_vec"
    /\ args.n = <<0, 0, 0, 1, 0, 0, 0, 0>>
    /\ args.trail # <<>>
    /\ Len(ret.encoded) = 9
    /\ ret.read_var_int.rest = args.trail

\* C26: VarInt decoding fails on an empty buffer and on a buffer that holds
\* fewer bytes than its first byte requires (fewer than 3 after 0xfd, 5 after
\* 0xfe, 9 after 0xff), and succeeds on every buffer that holds at least
\* that many bytes.
C26_DecodeFailsOnShortBuffer ==
    op = "VarInt::try_from" =>
        IF args.v # <<>> /\ Len(args.v) >= PrefixLen(args.v[1])
        THEN ret.try_from.ok /\ ret.read_var_int.some
        ELSE ret.try_from = [ok |-> FALSE, err |-> "TryFromVarIntError"]
                /\ ~ret.read_var_int.some

C26_Witness ==
    /\ op = "VarInt::try_from"
    /\ Len(args.v) = 8
    /\ args.v[1] = 255
    /\ ~ret.try_from.ok

\* a hex string in lowercase
Lowercase(s) == [k \in 1..Len(s) |-> HexDigits[HexVal[s[k]] + 1]]

\* the byte written as the k-th pair of characters of s
PairAt(s, k) == 16 * HexVal[s[2 * k - 1]] + HexVal[s[2 * k]]

\* C27: the text form of a 256-bit value reverses the byte order both ways:
\* parsing a 64-character hex string stores the decoded bytes in reversed
\* order, rendering writes the stored bytes reversed as lowercase hex, so
\* rendering a parsed string gives the string in lowercase and parsing a
\* rendered value gives the value; txid is this rendering of the double hash
\* of the serialization.
C27_TextFormReversesBytes ==
    /\ op = "uint256::from_str" =>
          /\ ret.parsed.ok
          /\ ret.parsed.val = [k \in 1..32 |-> PairAt(args.s, 33 - k)]
          /\ ret.rendered = Lowercase(args.s)
    /\ op = "String::from" =>
          /\ Len(ret.rendered) = 64
          /\ ret.rendered = Lowercase(ret.rendered)
          /\ \A k \in 1..32 : PairAt(ret.rendered, k) = args.v[33 - k]
          /\ ret.parsed = Ok(args.v)
    /\ op = "TxBuilder::txid" =>
          /\ Len(ret) = 64
          /\ ret = Lowercase(ret)
          /\ \A k \in 1..32 :
                PairAt(ret, k) = hash256(Transaction_to_vec(tx))[33 - k]

C27_Witness ==
    /\ op = "uint256::from_str"
    /\ args.s # Lowercase(args.s)
    /\ args.s[1] # args.s[63]
    /\ ret.parsed.ok
    /\ ret.parsed.val[32] = PairAt(args.s, 1)
    /\ ret.parsed.val[1] # ret.parsed.val[32]

\* the inputs without their unlocking scripts
Locks ==
    [k \in 1..Len(tx.inputs) |->
        [outpoint |-> tx.inputs[k].outpoint, sequence_no |-> tx.inputs[k].sequence_no]]

\* the bytes signed before the last term, computed from the arguments and
\* from the builder without the unlocking scripts of its inputs and without
\* its fork id
SignedHead ==
    LET i == AsNat(args.index)
        spent == IF Supplied
                 THEN [value |-> args.prev_value.val, script |-> args.prev_script.val]
                 ELSE prev_outputs[i]
    IN  Reverse(tx.version)
            \o (IF AnyoneCanPay(args.hash_type) THEN Zeros(32)
                ELSE hash256(ChainOutPoints(Locks)))
            \o (IF AnyoneCanPay(args.hash_type) \/ BaseType(args.hash_type) \in {2, 3}
                THEN Zeros(32)
                ELSE hash256(ChainSequences(Locks)))
            \o Locks[i + 1].outpoint.txid
            \o Reverse(Locks[i + 1].outpoint.n)
            \o SpentFields(spent)
            \o Reverse(Locks[i + 1].sequence_no)
            \o hash_outputs(args.hash_type, args.index)
            \o Reverse(tx.lock_time)

\* the last term for a fork id
LastTerm(id) == Reverse(BitOr(Shl8(id), args.hash_type))

\* what witness_v0_hash returns on this builder were its fork id id
ResultWith(id) ==
    LET i == AsNat(args.index)
        signed == SignedHead \o LastTerm(id)
    IN  IF i < Len(Locks) /\ (Supplied \/ i \in DOMAIN prev_outputs)
        THEN [ok |-> TRUE, val |-> hash256(signed), hasher |-> signed]
        ELSE [ok |-> FALSE, err |-> "InvalidIndex", index |-> Cast(args.index, 8)]

ResultWithoutScripts == ResultWith(fork_id)

\* C28: the digest of an input does not depend on any unlocking script:
\* the result of witness_v0_hash is a function of its arguments and of the
\* builder without the scripts of its inputs, so the same call returns the
\* same result before and after any sequence of set_script_sig calls.
C28_DigestIgnoresScriptSig ==
    op = "witness_v0_hash" => ret = ResultWithoutScripts

C28_Witness ==
    /\ op = "witness_v0_hash"
    /\ ret.ok
    /\ args.index = <<0, 0, 0, 0>>
    /\ tx.inputs[1].script = <<2, 48, 69>>
    /\ Len(tx.inputs) = 2
    /\ ret = ResultWithoutScripts

\* exactly one of prev_value and prev_script is given
HalfSupplied == args.prev_value.some # args.prev_script.some

\* C29: when witness_v0_hash is called with exactly one of prev_value and
\* prev_script, the one given is ignored: the result is the one of the call
\* with neither, made from the entry of the side table for the index if
\* there is one, and InvalidIndex otherwise.
C29_HalfSuppliedIsIgnored ==
    (op = "witness_v0_hash" /\ HalfSupplied) =>
        /\ ret = witness_v0_hash(args.hash_type, args.index, None, None)
        /\ IF AsNat(args.index) < Len(tx.inputs) /\ AsNat(args.index) \in DOMAIN prev_outputs
           THEN /\ ret.ok
                /\ SubSeq(Preimage, ScriptCodeAt,
                          ScriptCodeAt + Len(SpentFields(prev_outputs[AsNat(args.index)])) - 1)
                      = SpentFields(prev_outputs[AsNat(args.index)])
           ELSE ret = [ok |-> FALSE, err |-> "InvalidIndex", index |-> Cast(args.index, 8)]

C29_Witness ==
    /\ op = "witness_v0_hash"
    /\ args.prev_value.some
    /\ ~args.prev_script.some
    /\ ret.ok
    /\ args.prev_value.val # prev_outputs[AsNat(args.index)].value

\* fork ids to compare the one of the builder with
ForkIds ==
    {<<0, 0, 0, 0>>, <<0, 0, 0, 1>>, <<255, 0, 0, 0>>, <<0, 2, 3, 4>>, <<1, 2, 3, 4>>,
     <<0, 2, 3, 5>>}

\* the last four bytes of the preimage
LastField == SubSeq(Preimage, Len(Preimage) - 3, Len(Preimage))

\* the last term is ((fork_id * 256) mod 2^32) | hash_type, little-endian,
\* whatever the fork id and the hash type; the digest is the hash of bytes
\* that do not depend on the fork id followed by this term, which is the
\* same for fork ids that agree modulo 2^24
LastTermTruncates ==
    /\ (op = "witness_v0_hash" /\ Signable) => ret.ok
    /\ Digested =>
          /\ LastField = <<args.hash_type[4],
                           BitsOr(fork_id[4], args.hash_type[3]),
                           BitsOr(fork_id[3], args.hash_type[2]),
                           BitsOr(fork_id[2], args.hash_type[1])>>
          /\ Preimage = SignedHead \o LastField
          /\ ret.val = hash256(Preimage)
          /\ \A id \in ForkIds : Tail(id) = Tail(fork_id) => LastTerm(id) = LastField

\* the statement of C30 as it stands: whatever the hash type, a fork id that
\* differs modulo 2^24 gives another preimage
C30_ForkIdsAlwaysSeparate ==
    /\ LastTermTruncates
    /\ Digested =>
          \A id \in ForkIds : Tail(id) # Tail(fork_id) => LastTerm(id) # LastField

\* C30: the last preimage term is ((fork_id * 256) mod 2^32) OR hash_type in
\* 32-bit arithmetic, without failing: the top 8 bits of fork_id are
\* discarded, so fork ids that agree modulo 2^24 give the same digest, and
\* the bits of hash_type above bit 7 are OR-ed into the fork-id field; fork
\* ids that differ modulo 2^24 give different preimages when hash_type is
\* below 0x100.
C30_ForkIdsSeparateBelow256 ==
    /\ LastTermTruncates
    /\ (Digested /\ SubSeq(args.hash_type, 1, 3) = Zeros(3)) =>
          \A id \in ForkIds : Tail(id) # Tail(fork_id) => LastTerm(id) # LastField

C30_Witness ==
    /\ Digested
    /\ fork_id = <<1, 2, 3, 4>>
    /\ args.hash_type = <<0, 0, 1, 65>>
    /\ LastField = <<65, 5, 3, 2>>

=============================================================================
